---- MODULE Spec2Model ----
(***************************************************************************)
(* A model of the CSV scripts of the repository.                           *)
(*                                                                         *)
(*   src/complex_csv_analyzer.py   class CSVAnalyzer: a pandas DataFrame   *)
(*                                 loaded from a CSV file, and the         *)
(*                                 analyses made on it                     *)
(*   src/csv_analysis.py           three ways of summing the Visits column *)
(*                                                                         *)
(* Both scripts read the same file.  The file is modelled by its header    *)
(* (is there a "Visits" column) and by the text of the Visits cell of each *)
(* data row: the text of an integer, a text that is no number, or nothing. *)
(* The columns Slug, "Total Share" and "Capture Date" are taken to be      *)
(* present and well formed; a row's Slug is its row number.                *)
(*                                                                         *)
(* Numbers are exact: a float is a reduced fraction n/d, or one of nan,    *)
(* inf, -inf, which the code's divisions by a zero total produce.  The     *)
(* standard deviation is kept as its square.  pandas' operations are       *)
(* modelled as documented: sum, quantile and describe skip missing values, *)
(* quantile interpolates linearly, nlargest keeps the first of equal       *)
(* values and puts rows with a missing value last.                         *)
(***************************************************************************)
EXTENDS Integers, Sequences, FiniteSets, TLC

VARIABLES
    file,   \* the CSV file on disk: [hasVisits, rows]
    st,     \* "init" before CSVAnalyzer(csv_path), "loaded" after
    df,     \* self.df: the rows, each [Slug, Visits]
    dtype,  \* dtype of self.df['Visits']: "absent", "object" or "numeric"
    share,  \* self.df['Market_Share_Calc']: [has, vals]
    db,     \* the table visits_data of csv_analysis.db
    out,    \* what the last analyzer call returned or raised
    sums    \* what method1, method2, method3 of csv_analysis.py returned

vars == <<file, st, df, dtype, share, db, out, sums>>

------------------------------------------------------------------------------
(* Bounds of the model *)

MaxRows == 4
MaxVisit == 1
TopMaxRows == 6
TopMaxVisit == 1

(* Constants of the program *)

TopPerformers == 10
Top5 == 5
Top10 == 10
Top20 == 20
HhiScale == 10000
CompetitiveBelow == 1500
ModerateBelow == 2500

------------------------------------------------------------------------------
(* Sequences *)

RECURSIVE SeqsUpTo(_, _)
SeqsUpTo(S, n) ==
    IF n = 0 THEN {<<>>}
    ELSE LET shorter == SeqsUpTo(S, n - 1)
         IN  shorter \cup {Append(s, x) : s \in {t \in shorter : Len(t) = n - 1}, x \in S}

Map(f(_), s) == [i \in 1..Len(s) |-> f(s[i])]

RECURSIVE SumInts(_)
SumInts(s) == IF s = <<>> THEN 0 ELSE s[1] + SumInts(Tail(s))

Head_(s, n) == SubSeq(s, 1, IF n < Len(s) THEN n ELSE Len(s))

------------------------------------------------------------------------------
(* Floats, exactly *)

Abs(x) == IF x < 0 THEN 0 - x ELSE x

RECURSIVE GCD(_, _)
GCD(a, b) == IF b = 0 THEN a ELSE GCD(b, a % b)

Rat(n, d) ==
    LET s == IF d < 0 THEN 0 - 1 ELSE 1
        g == GCD(Abs(n), Abs(d))
    IN  [k |-> "num", n |-> (s * n) \div g, d |-> (s * d) \div g]

NaN == [k |-> "nan", n |-> 0, d |-> 1]
PInf == [k |-> "inf", n |-> 1, d |-> 0]
NInf == [k |-> "ninf", n |-> 0 - 1, d |-> 0]
IntF(i) == Rat(i, 1)

IsNum(x) == x.k = "num"

\* x < y on floats: a comparison with nan is false
Less(x, y) ==
    CASE x.k = "nan" \/ y.k = "nan" -> FALSE
      [] x.k = "num" /\ y.k = "num" -> x.n * y.d < y.n * x.d
      [] x.k = "ninf" -> y.k # "ninf"
      [] x.k = "inf" -> FALSE
      [] OTHER -> y.k = "inf"

Add(x, y) ==
    CASE x.k = "nan" \/ y.k = "nan" -> NaN
      [] x.k = "num" /\ y.k = "num" -> Rat(x.n * y.d + y.n * x.d, x.d * y.d)
      [] x.k = "num" -> y
      [] y.k = "num" -> x
      [] x.k = y.k -> x
      [] OTHER -> NaN

\* x * (p / q), q > 0
Scale(x, p, q) ==
    CASE x.k = "num" -> Rat(x.n * p, x.d * q)
      [] x.k = "nan" \/ p = 0 -> NaN
      [] (x.k = "inf") = (p > 0) -> PInf
      [] OTHER -> NInf

Sub(x, y) == Add(x, Scale(y, 0 - 1, 1))

Square(x) ==
    CASE x.k = "num" -> Rat(x.n * x.n, x.d * x.d)
      [] x.k = "nan" -> NaN
      [] OTHER -> PInf

\* a / b on a numeric column: numpy's division, which does not raise
Div(a, b) ==
    CASE b # 0 -> Rat(a, b)
      [] a = 0 -> NaN
      [] a > 0 -> PInf
      [] OTHER -> NInf

\* the nearest integer to n / d (d > 0), halves to the even one
RoundDiv(n, d) ==
    LET q == n \div d
        r == n % d
    IN  IF 2 * r < d THEN q
        ELSE IF 2 * r > d THEN q + 1
        ELSE IF q % 2 = 0 THEN q ELSE q + 1

\* round(x, digits): the float as an integer count of 10^-digits
RoundTo(x, unit) ==
    IF IsNum(x) THEN [k |-> "num", n |-> RoundDiv(x.n * unit, x.d), d |-> unit]
    ELSE x

\* Series.sum(): missing values are skipped
RECURSIVE SumSkipNa(_)
SumSkipNa(s) ==
    IF s = <<>> THEN IntF(0)
    ELSE IF s[1].k = "nan" THEN SumSkipNa(Tail(s))
    ELSE Add(s[1], SumSkipNa(Tail(s)))

------------------------------------------------------------------------------
(* The file *)

IntCell(v) == [k |-> "int", n |-> v]
BadCell == [k |-> "bad", n |-> 0]
EmptyCell == [k |-> "empty", n |-> 0]
NoCell == [k |-> "absent", n |-> 0]

VisitValues == 0..MaxVisit
Cells == {IntCell(v) : v \in VisitValues} \cup {BadCell, EmptyCell}

IntRows(s) == [i \in 1..Len(s) |-> IntCell(s[i])]

\* the files of the scenarios of the specification, the two on the
\* thresholds of the classification (HHI 2500 and HHI 1500), and files with
\* a negative count, which pd.read_csv and pd.to_numeric take as they come
ScenarioRows ==
    { IntRows(<<100, 50, 50>>),
      IntRows(<<1, 1, 1, 1>>),
      IntRows(<<4, 4, 3, 3, 2, 2, 1, 1>>),
      IntRows(<<3, 1, 2, 1, 5>>),
      IntRows(<<1, 1, 1, 1, 1, 1, 1, 1>>),
      IntRows(<<2, 0 - 1>>),
      IntRows(<<1, 0 - 1>>),
      IntRows(<<0 - 1, 0, 0, 0>>),
      <<IntCell(0 - 1), BadCell, IntCell(2)>> }

Files ==
    {[hasVisits |-> TRUE, rows |-> r] : r \in SeqsUpTo(Cells, MaxRows) \cup ScenarioRows}
    \cup {[hasVisits |-> FALSE, rows |-> r] : r \in SeqsUpTo({NoCell}, MaxRows)}

------------------------------------------------------------------------------
(* The values of the Visits column *)

NumV(v) == [t |-> "num", n |-> v]
NaNV == [t |-> "nan", n |-> 0]
StrV(v) == [t |-> "str", n |-> v]
BadStrV == [t |-> "badstr", n |-> 0]
NoV == [t |-> "absent", n |-> 0]

IsPresent(r) == r.Visits.t = "num"
Present(rows) == SelectSeq(rows, IsPresent)
Missing(rows) == SelectSeq(rows, LAMBDA r : r.Visits.t = "nan")
VisitOf(r) == r.Visits.n
PresentVals(rows) == Map(VisitOf, Present(rows))

\* the float of a cell of a numeric column
FloatOf(r) == IF IsPresent(r) THEN IntF(r.Visits.n) ELSE NaN

------------------------------------------------------------------------------
(* pandas *)

\* pd.read_csv: a column of integer texts and empty cells is numeric, with
\* the empty cells missing; one text that is no number makes the column a
\* column of texts (dtype object), as is a column with no rows
ReadDtype(f) ==
    IF ~f.hasVisits THEN "absent"
    ELSE IF f.rows = <<>> \/ \E i \in 1..Len(f.rows) : f.rows[i].k = "bad" THEN "object"
    ELSE "numeric"

ReadCell(c, dt) ==
    CASE c.k = "absent" -> NoV
      [] c.k = "empty" -> NaNV
      [] c.k = "bad" -> BadStrV
      [] OTHER -> IF dt = "object" THEN StrV(c.n) ELSE NumV(c.n)

read_csv(f) ==
    [i \in 1..Len(f.rows) |-> [Slug |-> i, Visits |-> ReadCell(f.rows[i], ReadDtype(f))]]

\* pd.to_numeric(errors='coerce'): a text that is no number becomes missing
CoerceValueZero(v) ==
    CASE v.t = "str" -> NumV(v.n)
      [] v.t = "badstr" -> NumV(0)
      [] OTHER -> v

CoerceValue(v) ==
    CASE v.t = "str" -> NumV(v.n)
      [] v.t = "badstr" -> NaNV
      [] OTHER -> v

to_numeric(rows) ==
    [i \in 1..Len(rows) |-> [Slug |-> rows[i].Slug, Visits |-> CoerceValue(rows[i].Visits)]]

RECURSIVE InsertAsc(_, _)
InsertAsc(x, s) ==
    IF s = <<>> THEN <<x>>
    ELSE IF x <= s[1] THEN <<x>> \o s
    ELSE <<s[1]>> \o InsertAsc(x, Tail(s))

RECURSIVE SortAsc(_)
SortAsc(s) == IF s = <<>> THEN <<>> ELSE InsertAsc(s[1], SortAsc(Tail(s)))

\* the quantile a / b of the sorted values s: linear interpolation between
\* the two nearest order statistics; nan when there is no value
QuantileOf(s, a, b) ==
    LET m == Len(s)
        lo == (a * (m - 1)) \div b
        r == (a * (m - 1)) % b
        hi == IF r = 0 THEN lo ELSE lo + 1
    IN  IF m = 0 THEN NaN
        ELSE Rat(b * s[lo + 1] + r * (s[hi + 1] - s[lo + 1]), b)

\* Series.quantile(a / b), over the present values
quantile(rows, a, b) == QuantileOf(SortAsc(PresentVals(rows)), a, b)

RECURSIVE InsertDescUnstable(_, _)
InsertDescUnstable(r, s) ==
    IF s = <<>> THEN <<r>>
    ELSE IF s[1].Visits.n > r.Visits.n THEN <<s[1]>> \o InsertDescUnstable(r, Tail(s))
    ELSE <<r>> \o s

\* r goes behind every row whose value is at least its own
RECURSIVE InsertDesc(_, _)
InsertDesc(r, s) ==
    IF s = <<>> THEN <<r>>
    ELSE IF s[1].Visits.n >= r.Visits.n THEN <<s[1]>> \o InsertDesc(r, Tail(s))
    ELSE <<r>> \o s

\* by Visits descending, rows of equal Visits in their order
RECURSIVE SortDesc(_)
SortDesc(s) ==
    IF s = <<>> THEN <<>>
    ELSE InsertDesc(s[Len(s)], SortDesc(SubSeq(s, 1, Len(s) - 1)))

\* DataFrame.nlargest(n, 'Visits'), keep='first'
nlargest(rows, n) ==
    IF n <= 0 THEN <<>>
    ELSE Head_(SortDesc(Present(rows)) \o Missing(rows), n)

\* Series.describe(): over the present values
describe(rows) ==
    LET v == PresentVals(rows)
        m == Len(v)
        total == SumInts(v)
        s == SortAsc(v)
        dev == [i \in 1..m |-> (m * v[i] - total) * (m * v[i] - total)]
    IN  [ count |-> m,
          mean |-> IF m = 0 THEN NaN ELSE Rat(total, m),
          var |-> IF m < 2 THEN NaN ELSE Rat(SumInts(dev), m * m * (m - 1)),
          min |-> IF m = 0 THEN NaN ELSE IntF(s[1]),
          q25 |-> QuantileOf(s, 1, 4),
          q50 |-> QuantileOf(s, 1, 2),
          q75 |-> QuantileOf(s, 3, 4),
          max |-> IF m = 0 THEN NaN ELSE IntF(s[m]) ]

Percents == <<10, 25, 50, 75, 90, 95, 99>>

\* Series.quantile([0.1, 0.25, 0.5, 0.75, 0.9, 0.95, 0.99])
percentiles(rows) ==
    LET s == SortAsc(PresentVals(rows))
    IN  [i \in 1..Len(Percents) |-> QuantileOf(s, Percents[i], 100)]

------------------------------------------------------------------------------
(* CSVAnalyzer, on a numeric Visits column *)

lower_bound(Q1, Q3) == Sub(Q1, Scale(Sub(Q3, Q1), 3, 2))

upper_bound(Q1, Q3) == Add(Q3, Scale(Sub(Q3, Q1), 3, 2))

IsOutlierInclusive(r, lo, hi) == ~Less(lo, FloatOf(r)) \/ ~Less(FloatOf(r), hi)

\* the mask (Visits < lower_bound) | (Visits > upper_bound)
IsOutlier(r, lo, hi) == Less(FloatOf(r), lo) \/ Less(hi, FloatOf(r))

detect_outliers(rows) ==
    LET Q1 == quantile(rows, 1, 4)
        Q3 == quantile(rows, 3, 4)
        lo == lower_bound(Q1, Q3)
        hi == upper_bound(Q1, Q3)
    IN  SortDesc(SelectSeq(rows, LAMBDA r : IsOutlier(r, lo, hi)))

classify_upper_inclusive(hhi) ==
    IF ~Less(IntF(CompetitiveBelow), hhi) THEN "Competitive Market"
    ELSE IF ~Less(IntF(ModerateBelow), hhi) THEN "Moderately Concentrated"
    ELSE "Highly Concentrated"

classify_market_concentration(hhi) ==
    IF Less(hhi, IntF(CompetitiveBelow)) THEN "Competitive Market"
    ELSE IF Less(hhi, IntF(ModerateBelow)) THEN "Moderately Concentrated"
    ELSE "Highly Concentrated"

total_visits(rows) == SumInts(PresentVals(rows))

Market_Share_Calc(rows) ==
    LET total == total_visits(rows)
    IN  [i \in 1..Len(rows) |->
            IF IsPresent(rows[i]) THEN Div(rows[i].Visits.n, total) ELSE NaN]

\* df.nlargest(n, 'Visits')['Market_Share_Calc'].sum()
top_share(rows, sh, n) ==
    LET top == nlargest(rows, n)
    IN  SumSkipNa([i \in 1..Len(top) |-> sh[top[i].Slug]])

\* (df['Market_Share_Calc'] ** 2).sum() * 10000
hhi_of(sh) == Scale(SumSkipNa(Map(Square, sh)), HhiScale, 1)

\* f"{x:.1%}": tenths of a percent
Percent1(x) == RoundTo(x, 1000)

calculate_market_concentration(rows) ==
    LET sh == Market_Share_Calc(rows)
        hhi == hhi_of(sh)
    IN  [ top_5_concentration |-> Percent1(top_share(rows, sh, Top5)),
          top_10_concentration |-> Percent1(top_share(rows, sh, Top10)),
          top_20_concentration |-> Percent1(top_share(rows, sh, Top20)),
          hhi_index |-> RoundTo(hhi, 100),
          market_classification |-> classify_market_concentration(hhi) ]

complex_analysis(rows) ==
    [ basic_stats |-> describe(rows),
      percentiles |-> percentiles(rows),
      outliers |-> detect_outliers(rows),
      top_performers |-> nlargest(rows, TopPerformers),
      market_concentration |-> calculate_market_concentration(rows) ]

generate_insights_report(rows) ==
    LET analysis == complex_analysis(rows)
    IN  [ total_services |-> Len(rows),
          total_visits |-> total_visits(rows),
          market_type |-> analysis.market_concentration.market_classification,
          top_performers |-> analysis.top_performers,
          top_5 |-> analysis.market_concentration.top_5_concentration,
          top_10 |-> analysis.market_concentration.top_10_concentration,
          hhi_index |-> analysis.market_concentration.hhi_index,
          mean |-> RoundTo(analysis.basic_stats.mean, 1),
          median |-> RoundTo(analysis.basic_stats.q50, 1),
          var |-> analysis.basic_stats.var,
          p99 |-> RoundTo(analysis.percentiles[7], 1),
          n_outliers |-> Len(analysis.outliers) ]

------------------------------------------------------------------------------
(* What a call on the analyzer returns or raises, by the state of self.df *)

NoVal == [k |-> "none"]
Returned(op, v) == [op |-> op, err |-> "none", val |-> v]
Raised(op, e) == [op |-> op, err |-> e, val |-> NoVal]

\* self.df['Visits'] of a frame with no such column raises KeyError; the
\* quantile of a column of texts raises TypeError
detect_outliers_call(rows, dt) ==
    CASE dt = "absent" -> Raised("detect_outliers", "KeyError")
      [] dt = "object" /\ rows # <<>> -> Raised("detect_outliers", "TypeError")
      [] OTHER -> Returned("detect_outliers", detect_outliers(rows))

\* on a column of texts the sum or the division raises TypeError; on an
\* empty column of dtype object they pass and nlargest raises it
calculate_market_concentration_call(rows, dt) ==
    CASE dt = "absent" -> Raised("calculate_market_concentration", "KeyError")
      [] dt = "object" -> Raised("calculate_market_concentration", "TypeError")
      [] OTHER -> Returned("calculate_market_concentration",
                           calculate_market_concentration(rows))

\* whether the call gets as far as assigning the column Market_Share_Calc
AssignsShare(rows, dt) == dt = "numeric" \/ (dt = "object" /\ rows = <<>>)

complex_analysis_call(rows, dt) ==
    IF dt = "absent" THEN Raised("complex_analysis", "KeyError")
    ELSE Returned("complex_analysis", complex_analysis(to_numeric(rows)))

generate_insights_report_call(rows, dt) ==
    IF dt = "absent" THEN Raised("generate_insights_report", "KeyError")
    ELSE Returned("generate_insights_report", generate_insights_report(to_numeric(rows)))

\* to_sql writes any frame; the query names the column Visits
export_to_database_call(rows, dt) ==
    IF dt = "absent" THEN Raised("export_to_database", "DatabaseError")
    ELSE Returned("export_to_database", [rows |-> Len(rows)])

NoShare == [has |-> FALSE, vals |-> <<>>]
NoDb == [written |-> FALSE, rows |-> <<>>, share |-> NoShare]
NoOut == [op |-> "none", err |-> "none", val |-> NoVal]
NotRun == [err |-> "notrun", kind |-> "none", total |-> 0]
NoSums == [m1 |-> NotRun, m2 |-> NotRun, m3 |-> NotRun,
           stats |-> [count |-> 0, average |-> [k |-> "nan", n |-> 0, d |-> 1], max |-> 0, min |-> 0]]

------------------------------------------------------------------------------
(* CSVAnalyzer: the calls *)

Init ==
    /\ file \in Files
    /\ st = "init"
    /\ df = <<>>
    /\ dtype = "absent"
    /\ share = NoShare
    /\ db = NoDb
    /\ out = NoOut
    /\ sums = NoSums

\* CSVAnalyzer(csv_path)
Load ==
    /\ st = "init"
    /\ st' = "loaded"
    /\ df' = read_csv(file)
    /\ dtype' = ReadDtype(file)
    /\ out' = Returned("load", NoVal)
    /\ UNCHANGED <<file, share, db, sums>>

ComplexAnalysis ==
    /\ st = "loaded"
    /\ out' = complex_analysis_call(df, dtype)
    /\ IF dtype = "absent"
       THEN UNCHANGED <<df, dtype, share>>
       ELSE /\ df' = to_numeric(df)
            /\ dtype' = "numeric"
            /\ share' = [has |-> TRUE, vals |-> Market_Share_Calc(to_numeric(df))]
    /\ UNCHANGED <<file, st, db, sums>>

DetectOutliers ==
    /\ st = "loaded"
    /\ out' = detect_outliers_call(df, dtype)
    /\ UNCHANGED <<file, st, df, dtype, share, db, sums>>

CalculateMarketConcentration ==
    /\ st = "loaded"
    /\ out' = calculate_market_concentration_call(df, dtype)
    /\ share' = IF AssignsShare(df, dtype)
                THEN [has |-> TRUE, vals |-> Market_Share_Calc(df)]
                ELSE share
    /\ UNCHANGED <<file, st, df, dtype, db, sums>>

GenerateInsightsReport ==
    /\ st = "loaded"
    /\ out' = generate_insights_report_call(df, dtype)
    /\ IF dtype = "absent"
       THEN UNCHANGED <<df, dtype, share>>
       ELSE /\ df' = to_numeric(df)
            /\ dtype' = "numeric"
            /\ share' = [has |-> TRUE, vals |-> Market_Share_Calc(to_numeric(df))]
    /\ UNCHANGED <<file, st, db, sums>>

ExportToDatabase ==
    /\ st = "loaded"
    /\ out' = export_to_database_call(df, dtype)
    /\ db' = [written |-> TRUE, rows |-> df, share |-> share]
    /\ UNCHANGED <<file, st, df, dtype, share, sums>>

Next ==
    \/ Load
    \/ ComplexAnalysis
    \/ DetectOutliers
    \/ CalculateMarketConcentration
    \/ GenerateInsightsReport
    \/ ExportToDatabase

Spec == Init /\ [][Next]_vars

------------------------------------------------------------------------------
(* The top rows: complex_analysis to its top_performers, for any n *)

TopCells == {IntCell(v) : v \in 0..TopMaxVisit} \cup {EmptyCell}

TopScenarioRows ==
    { <<IntCell(2), BadCell, IntCell(2), IntCell(3)>>,
      IntRows(<<3, 1, 2, 1, 5, 1, 1>>) }

TopFiles ==
    {[hasVisits |-> TRUE, rows |-> r] :
        r \in SeqsUpTo(TopCells, TopMaxRows) \cup TopScenarioRows}

InitTop ==
    /\ file \in TopFiles
    /\ st = "init"
    /\ df = <<>>
    /\ dtype = "absent"
    /\ share = NoShare
    /\ db = NoDb
    /\ out = NoOut
    /\ sums = NoSums

\* lines 21 to 30 of complex_analysis, the 10 of nlargest being n
TopN(n) ==
    /\ st = "loaded"
    /\ dtype # "absent"
    /\ df' = to_numeric(df)
    /\ dtype' = "numeric"
    /\ out' = [op |-> "nlargest", err |-> "none", n |-> n, val |-> nlargest(to_numeric(df), n)]
    /\ UNCHANGED <<file, st, share, db, sums>>

NextTop ==
    \/ Load
    \/ \E n \in 0..Len(df) \cup {Top5, Top10, Top20, TopPerformers} : TopN(n)

SpecTopN == InitTop /\ [][NextTop]_vars

------------------------------------------------------------------------------
(* csv_analysis.py *)

Ok(kind, total) == [err |-> "none", kind |-> kind, total |-> total]
Failed(e) == [err |-> e, kind |-> "none", total |-> 0]

IsInt(c) == c.k = "int"
IntsOf(cells) == Map(LAMBDA c : c.n, SelectSeq(cells, IsInt))
AllInt(cells) == \A i \in 1..Len(cells) : IsInt(cells[i])
AnyEmpty(cells) == \E i \in 1..Len(cells) : cells[i].k = "empty"

method1_skipping(f) ==
    IF f.rows = <<>> THEN Ok("int", 0)
    ELSE IF ~f.hasVisits THEN Failed("KeyError")
    ELSE Ok("int", SumInts(IntsOf(f.rows)))

\* the loop body runs once per data row: row['Visits'] raises KeyError
\* without the column, int() raises ValueError on '' and on a text
method1_basic_csv(f) ==
    IF f.rows = <<>> THEN Ok("int", 0)
    ELSE IF ~f.hasVisits THEN Failed("KeyError")
    ELSE IF ~AllInt(f.rows) THEN Failed("ValueError")
    ELSE Ok("int", SumInts(IntsOf(f.rows)))

\* Series.sum(): over the present values of a numeric column; of a column
\* of texts the concatenation, or TypeError when one of its cells is missing
method2_pandas(f) ==
    CASE ReadDtype(f) = "absent" -> Failed("KeyError")
      [] ReadDtype(f) = "numeric" ->
            Ok(IF AnyEmpty(f.rows) THEN "float" ELSE "int", SumInts(IntsOf(f.rows)))
      [] f.rows = <<>> -> Ok("int", 0)
      [] AnyEmpty(f.rows) -> Failed("TypeError")
      [] OTHER -> Ok("text", 0)

NoStats == [count |-> 0, average |-> NaN, max |-> 0, min |-> 0]

method3_with_stats(f) ==
    IF f.rows # <<>> /\ ~f.hasVisits THEN [r |-> Failed("KeyError"), stats |-> NoStats]
    ELSE IF ~AllInt(f.rows) THEN [r |-> Failed("ValueError"), stats |-> NoStats]
    ELSE IF f.rows = <<>> THEN [r |-> Failed("ZeroDivisionError"), stats |-> NoStats]
    ELSE LET visits == IntsOf(f.rows)
             total == SumInts(visits)
             sorted == SortAsc(visits)
         IN  [ r |-> Ok("int", total),
               stats |-> [ count |-> Len(visits),
                           average |-> RoundTo(Rat(total, Len(visits)), 100),
                           max |-> sorted[Len(sorted)],
                           min |-> sorted[1] ] ]

Method1 ==
    /\ sums' = [sums EXCEPT !.m1 = method1_basic_csv(file)]
    /\ UNCHANGED <<file, st, df, dtype, share, db, out>>

Method2 ==
    /\ sums' = [sums EXCEPT !.m2 = method2_pandas(file)]
    /\ UNCHANGED <<file, st, df, dtype, share, db, out>>

Method3 ==
    /\ sums' = [sums EXCEPT !.m3 = method3_with_stats(file).r,
                            !.stats = method3_with_stats(file).stats]
    /\ UNCHANGED <<file, st, df, dtype, share, db, out>>

NextSum ==
    \/ Method1
    \/ Method2
    \/ Method3

SpecSum == Init /\ [][NextSum]_vars

------------------------------------------------------------------------------
(* The claims *)

\* the visit counts the file gives, in row order
FileVisits(f) == IntsOf(f.rows)

Called(op) == out.op = op
ReturnedBy(op) == out.op = op /\ out.err = "none"

\* C1: market_concentration() on a dataset whose present visit counts sum to
\* zero (the empty dataset and the dataset of missing counts included) fails
\* with a DegenerateInputError.
C1_ZeroTotalFails ==
    (Called("calculate_market_concentration")
        /\ file.hasVisits /\ SumInts(FileVisits(file)) = 0)
    => out.err = "DegenerateInputError"

\* C2: load fails with a FormatError when the file has no "Visits" column or
\* every value of that column is unparseable, so no analyzer in the loaded
\* state exists for such a file.
C2_LoadRejectsUnusableVisits ==
    (~file.hasVisits \/ (file.rows # <<>> /\ FileVisits(file) = <<>>))
    => st # "loaded"

\* C6: for a dataset the analyzer accepts and whose total visits is greater
\* than zero, the HHI of market_concentration() lies in (0, 10000].
C6_HhiInRange ==
    (ReturnedBy("calculate_market_concentration") /\ total_visits(df) > 0)
    => /\ Less(IntF(0), hhi_of(share.vals))
       /\ ~Less(IntF(HhiScale), hhi_of(share.vals))
       /\ IsNum(hhi_of(share.vals))

\* C8: after load, whatever the calls made, the records of the dataset are
\* as loaded: their number, their order and every loaded field value.
C8_RecordsStayAsLoaded ==
    st = "loaded" => df = read_csv(file)

\* C10: detect_outliers(), calculate_market_concentration() and
\* generate_insights_report() return the same result, or raise the same
\* error, as when called first after load, whatever was called before
\* (here on the datasets of at least one row alone).
C10_OutcomeIndependentOfHistory ==
    file.rows # <<>>
    => /\ Called("detect_outliers")
            => out = detect_outliers_call(read_csv(file), ReadDtype(file))
       /\ Called("calculate_market_concentration")
            => out = calculate_market_concentration_call(read_csv(file), ReadDtype(file))
       /\ Called("generate_insights_report")
            => out = generate_insights_report_call(read_csv(file), ReadDtype(file))

\* C7, as stated: the classification is "Competitive" when HHI < 1500,
\* "Moderately Concentrated" when 1500 <= HHI < 2500, "Highly Concentrated"
\* when HHI >= 2500 (here on the datasets of a positive total alone).
C7_LabelsAsStated ==
    (ReturnedBy("calculate_market_concentration") /\ total_visits(df) > 0)
    => LET h == hhi_of(share.vals)
       IN  out.val.market_classification =
               IF IsNum(h) /\ h.n < 1500 * h.d THEN "Competitive"
               ELSE IF IsNum(h) /\ h.n < 2500 * h.d THEN "Moderately Concentrated"
               ELSE "Highly Concentrated"

\* C7, amended: the classification is a function of the HHI alone, with
\* inclusive lower bounds: "Competitive Market" exactly when HHI < 1500,
\* "Moderately Concentrated" exactly when 1500 <= HHI < 2500, "Highly
\* Concentrated" exactly when HHI >= 2500; for the visits 100, 50, 50 the
\* HHI is 3750 and the classification "Highly Concentrated".
C7_Classification ==
    ReturnedBy("calculate_market_concentration")
    => LET h == hhi_of(share.vals)
           c == out.val.market_classification
       IN  /\ IsNum(h) \/ h.k = "inf"
           /\ (c = "Competitive Market") <=> (IsNum(h) /\ h.n < 1500 * h.d)
           /\ (c = "Moderately Concentrated")
                <=> (IsNum(h) /\ h.n >= 1500 * h.d /\ h.n < 2500 * h.d)
           /\ (c = "Highly Concentrated")
                <=> (h.k = "inf" \/ (IsNum(h) /\ h.n >= 2500 * h.d))
           /\ file.rows = IntRows(<<100, 50, 50>>)
                => /\ h = [k |-> "num", n |-> 3750, d |-> 1]
                   /\ out.val.hhi_index = [k |-> "num", n |-> 375000, d |-> 100]
                   /\ c = "Highly Concentrated"

\* C7: the scenario 100, 50, 50 has been classified
C7_Witness ==
    /\ ReturnedBy("calculate_market_concentration")
    /\ file.rows = IntRows(<<100, 50, 50>>)
    /\ out.val.market_classification = "Highly Concentrated"

\* some rows, not all, carry a text that is no number
PartlyBad(f) ==
    /\ f.hasVisits
    /\ \E i \in 1..Len(f.rows) : f.rows[i].k = "bad"
    /\ \E i \in 1..Len(f.rows) : f.rows[i].k = "int"

Times4Quantile(s, a) ==
    LET m == Len(s)
        lo == (a * (m - 1)) \div 4
        r == (a * (m - 1)) % 4
    IN  IF r = 0 THEN 4 * s[lo + 1]
        ELSE (4 - r) * s[lo + 1] + r * s[lo + 2]

\* v lies outside [Q1 - 1.5 IQR, Q3 + 1.5 IQR], all of it times 8
OutsideFences(v, s) ==
    LET q1 == Times4Quantile(s, 1)
        q3 == Times4Quantile(s, 3)
    IN  \/ 8 * v < 2 * q1 - 3 * (q3 - q1)
        \/ 8 * v > 2 * q3 + 3 * (q3 - q1)

\* C4: detect_outliers() returns exactly the records whose visit count is
\* strictly below Q1 - 1.5 IQR or strictly above Q3 + 1.5 IQR, Q1 and Q3 the
\* quartiles of the present visit counts: none inside the closed fence
\* interval, none outside it left out, and none when all counts are equal.
C4_OutliersExactlyOutsideFences ==
    ReturnedBy("detect_outliers")
    => LET s == SortAsc(PresentVals(df))
           got == {out.val[i] : i \in 1..Len(out.val)}
       IN  /\ got = {df[i] : i \in {j \in 1..Len(df) :
                        IsPresent(df[j]) /\ OutsideFences(df[j].Visits.n, s)}}
           /\ Cardinality(got) = Len(out.val)
           /\ (s # <<>> /\ s[1] = s[Len(s)]) => out.val = <<>>

\* C4: detect_outliers() has returned some of the present records, not all
C4_Witness ==
    /\ ReturnedBy("detect_outliers")
    /\ out.val # <<>>
    /\ Len(out.val) < Len(Present(df))

SameCount(a, b) == a.Visits = b.Visits

Completed(r) == r.err = "none"
Fails(r) == r.err \notin {"none", "notrun"}
AllRan == sums.m1 # NotRun /\ sums.m2 # NotRun /\ sums.m3 # NotRun

StatsHold ==
    Completed(sums.m3)
    => /\ sums.stats.count = Len(file.rows)
       /\ ~Less(sums.stats.average, IntF(sums.stats.min))
       /\ ~Less(IntF(sums.stats.max), sums.stats.average)
       /\ IsNum(sums.stats.average)

TotalsAgree ==
    (Completed(sums.m1) /\ Completed(sums.m2) /\ Completed(sums.m3))
    => /\ sums.m2.kind = "int"
       /\ sums.m1.total = sums.m2.total
       /\ sums.m2.total = sums.m3.total
       /\ sums.m3.total = SumInts(FileVisits(file))

====
